---- MODULE Spec2Model ----
(***************************************************************************)
(* Model of src/nba_integration.py: the position mapper, the attribute     *)
(* converter, the roster balancer, the player factory and the team         *)
(* assembler of NBADataManager.                                            *)
(*                                                                         *)
(* Numbers.  The Python code works on floats.  The model works on exact    *)
(* rationals written as scaled integers:                                   *)
(*   per-game values (points, assists, ..., minutes)  in tenths,           *)
(*   shooting ratios                                  in hundredths.       *)
(* int(x) of a non-negative product is then an integer division.  The      *)
(* input grids below only hold values on which the exact result and the    *)
(* IEEE double result of the source expression agree.                      *)
(*                                                                         *)
(* Strings.  A position label is a sequence of one-character strings, so   *)
(* that "'-' in s" and "s.split('-')[0]" are computed, not assumed.        *)
(***************************************************************************)
EXTENDS Integers, Sequences, FiniteSets, TLC

VARIABLES
    \* convert_position_to_number: argument and returned slot (0: not called)
    position_str, result,
    \* convert_stats_to_simulation_attributes: arguments and returned profile
    stats, position, attributes,
    \* _balance_roster: the list passed in, what the call produced, and
    \* what a further call on that result produced
    players, balanced, rebalanced,
    \* create_nba_player: the roster entry and the stats fetched for it,
    \* and what the call returned (None: not called)
    entry, entry_stats, made,
    \* create_nba_teams: module flag, arguments, control state
    NBA_API_AVAILABLE, team1_id, team2_id, pc, call,
    \* NBADataManager: what the last construction gave, and the two
    \* caches the assembler uses
    manager, roster_cache, player_cache,
    \* create_nba_team: locals of the running call
    roster_data, i, players_created,
    \* create_nba_teams: locals and returned pair
    team1, team2, returned,
    \* history: provider requests made, entries gone wrong so far, and for
    \* the running call the entries whose stats fetch raised, the entries
    \* whose construction raised, and the list handed to the balancer
    requests, failures, fetch_errors, skipped, handed

posVars  == <<position_str, result>>
convVars == <<stats, position, attributes>>
balVars  == <<players, balanced, rebalanced>>
plrVars  == <<entry, entry_stats, made>>
asmVars  == <<NBA_API_AVAILABLE, team1_id, team2_id, pc, call, manager,
              roster_cache, player_cache, roster_data, i, players_created,
              team1, team2, returned,
              requests, failures, fetch_errors, skipped, handed>>
vars     == <<posVars, convVars, balVars, plrVars, asmVars>>

----------------------------------------------------------------------------
(* Python helpers *)

Max(a, b) == IF a >= b THEN a ELSE b
Min(a, b) == IF a <= b THEN a ELSE b

\* int(n/d): truncation toward zero
Trunc(n, d) == IF n >= 0 THEN n \div d ELSE -((-n) \div d)

\* dict.get(k, default)
Get(d, k, default) == IF k \in DOMAIN d THEN d[k] ELSE default

\* Optional values: None, or a present value
None == [some |-> FALSE]
Some(v) == [some |-> TRUE, val |-> v]

EmptyDict == [k \in {} |-> 0]

----------------------------------------------------------------------------
(* Position labels *)

PG == <<"P", "G">>
SG == <<"S", "G">>
SF == <<"S", "F">>
PF == <<"P", "F">>
C_ == <<"C">>
G_ == <<"G">>
F_ == <<"F">>
F_C == <<"F", "-", "C">>
C_F == <<"C", "-", "F">>
G_F == <<"G", "-", "F">>
PointGuard == <<"P","o","i","n","t"," ","G","u","a","r","d">>
ShootingGuard == <<"S","h","o","o","t","i","n","g"," ","G","u","a","r","d">>
Guard == <<"G","u","a","r","d">>
SmallForward == <<"S","m","a","l","l"," ","F","o","r","w","a","r","d">>
Forward == <<"F","o","r","w","a","r","d">>
PowerForward == <<"P","o","w","e","r"," ","F","o","r","w","a","r","d">>
Center == <<"C","e","n","t","e","r">>

position_mapping ==
    (PG :> 1) @@ (PointGuard :> 1) @@
    (SG :> 2) @@ (ShootingGuard :> 2) @@ (Guard :> 2) @@
    (SF :> 3) @@ (SmallForward :> 3) @@ (Forward :> 3) @@
    (PF :> 4) @@ (PowerForward :> 4) @@
    (C_ :> 5) @@ (Center :> 5) @@
    (G_ :> 2) @@ (F_ :> 3) @@ (F_C :> 4) @@ (C_F :> 4) @@ (G_F :> 2)

\* '-' in s
HasSep(s) == \E k \in 1..Len(s) : s[k] = "-"

\* A faulty variant: the segment behind the last separator
SplitFirst_mut(s) ==
    IF HasSep(s)
    THEN LET k == CHOOSE j \in 1..Len(s) :
                      s[j] = "-" /\ \A h \in (j+1)..Len(s) : s[h] # "-"
         IN  SubSeq(s, k + 1, Len(s))
    ELSE s

\* s.split('-')[0]
SplitFirst(s) ==
    IF HasSep(s)
    THEN LET k == CHOOSE j \in 1..Len(s) :
                      s[j] = "-" /\ \A h \in 1..(j-1) : s[h] # "-"
         IN  SubSeq(s, 1, k - 1)
    ELSE s

\* A faulty variant: a label without separator that the table does not
\* hold has no slot
convert_position_to_number_mut(s) ==
    IF HasSep(s)
    THEN LET primary_pos == SplitFirst(s)
         IN  Get(position_mapping, primary_pos, 3)
    ELSE Get(position_mapping, s, 6)

\* Lines 179-199
convert_position_to_number(s) ==
    IF HasSep(s)
    THEN LET primary_pos == SplitFirst(s)
         IN  Get(position_mapping, primary_pos, 3)
    ELSE Get(position_mapping, s, 3)

----------------------------------------------------------------------------
(* Attribute converter *)

Slots == 1..5

StatKeys == {"points_per_game", "assists_per_game", "rebounds_per_game",
             "steals_per_game", "blocks_per_game", "minutes_per_game",
             "fg_percentage", "fg3_percentage", "ft_percentage"}

modifiers ==
    [p \in Slots |->
       CASE p = 1 -> [passing_multiplier |-> 15, min_passing |-> 60,
                      base_speed |-> 70, min_speed |-> 60,
                      base_dribbling |-> 65, min_dribbling |-> 55,
                      rebound_multiplier |-> 8, layup_base |-> 50, dunk_base |-> 30]
         [] p = 2 -> [passing_multiplier |-> 12, min_passing |-> 45,
                      base_speed |-> 65, min_speed |-> 55,
                      base_dribbling |-> 60, min_dribbling |-> 50,
                      rebound_multiplier |-> 10, layup_base |-> 55, dunk_base |-> 40]
         [] p = 3 -> [passing_multiplier |-> 10, min_passing |-> 50,
                      base_speed |-> 60, min_speed |-> 50,
                      base_dribbling |-> 55, min_dribbling |-> 45,
                      rebound_multiplier |-> 12, layup_base |-> 60, dunk_base |-> 45]
         [] p = 4 -> [passing_multiplier |-> 8, min_passing |-> 40,
                      base_speed |-> 50, min_speed |-> 40,
                      base_dribbling |-> 45, min_dribbling |-> 35,
                      rebound_multiplier |-> 15, layup_base |-> 65, dunk_base |-> 55]
         [] p = 5 -> [passing_multiplier |-> 6, min_passing |-> 35,
                      base_speed |-> 45, min_speed |-> 35,
                      base_dribbling |-> 40, min_dribbling |-> 30,
                      rebound_multiplier |-> 18, layup_base |-> 70, dunk_base |-> 60]]

\* modifiers.get(position, modifiers[3])
_get_position_modifiers(p) == Get(modifiers, p, modifiers[3])

defaults ==
    [p \in Slots |->
       CASE p = 1 -> [shooting |-> [close |-> 65, mid |-> 70, long |-> 75, ft |-> 80],
                      driving  |-> [layups |-> 70, dunking |-> 50],
                      skills   |-> [speed |-> 85, dribbling |-> 80, passing |-> 85, stamina |-> 75],
                      defense  |-> [rebounding |-> 45, defense |-> 65, blocking |-> 30, stealing |-> 70]]
         [] p = 2 -> [shooting |-> [close |-> 70, mid |-> 75, long |-> 80, ft |-> 82],
                      driving  |-> [layups |-> 75, dunking |-> 60],
                      skills   |-> [speed |-> 80, dribbling |-> 75, passing |-> 65, stamina |-> 75],
                      defense  |-> [rebounding |-> 50, defense |-> 70, blocking |-> 35, stealing |-> 65]]
         [] p = 3 -> [shooting |-> [close |-> 72, mid |-> 70, long |-> 75, ft |-> 78],
                      driving  |-> [layups |-> 75, dunking |-> 65],
                      skills   |-> [speed |-> 75, dribbling |-> 70, passing |-> 70, stamina |-> 80],
                      defense  |-> [rebounding |-> 65, defense |-> 72, blocking |-> 45, stealing |-> 60]]
         [] p = 4 -> [shooting |-> [close |-> 75, mid |-> 65, long |-> 60, ft |-> 75],
                      driving  |-> [layups |-> 80, dunking |-> 75],
                      skills   |-> [speed |-> 65, dribbling |-> 60, passing |-> 55, stamina |-> 80],
                      defense  |-> [rebounding |-> 80, defense |-> 75, blocking |-> 65, stealing |-> 50]]
         [] p = 5 -> [shooting |-> [close |-> 80, mid |-> 55, long |-> 45, ft |-> 70],
                      driving  |-> [layups |-> 85, dunking |-> 80],
                      skills   |-> [speed |-> 55, dribbling |-> 50, passing |-> 45, stamina |-> 75],
                      defense  |-> [rebounding |-> 85, defense |-> 80, blocking |-> 80, stealing |-> 45]]]

\* A faulty variant: the small-forward defaults for every slot
_get_position_defaults_mut(p) == defaults[3]

\* defaults.get(position, defaults[3])
_get_position_defaults(p) == Get(defaults, p, defaults[3])

\* "if not stats": None and the empty dict are both falsy
NoStats(st) == ~st.some \/ DOMAIN st.val = {}

\* Lines 213-223: the inputs after defaulting and clamping
\* (per-game values in tenths, ratios in hundredths)
ppg_of(d) == Max(0, Get(d, "points_per_game", 100))
\* A faulty variant: a negative value is taken as it is
apg_of_mut(d) == Get(d, "assists_per_game", 20)
\* Line 214
apg_of(d) == Max(0, Get(d, "assists_per_game", 20))
\* Lines 215-223
rpg_of(d) == Max(0, Get(d, "rebounds_per_game", 40))
spg_of(d) == Max(0, Get(d, "steals_per_game", 10))
bpg_of(d) == Max(0, Get(d, "blocks_per_game", 5))
mpg_of(d) == Max(100, Min(400, Get(d, "minutes_per_game", 200)))
fg_pct_of(d) == Max(30, Min(70, Get(d, "fg_percentage", 45)))
fg3_pct_of(d) == Max(20, Min(50, Get(d, "fg3_percentage", 35)))
ft_pct_of(d) == Max(50, Min(95, Get(d, "ft_percentage", 75)))

\* Lines 228-230
shooting_base_of(d) == Trunc(fg_pct_of(d) * 150, 100)
three_point_skill_of(d) == Trunc(fg3_pct_of(d) * 200, 100)
\* A faulty variant: the free-throw value capped at 100 like its neighbours
ft_skill_of_mut(d) == Min(100, Trunc(ft_pct_of(d) * 120, 100))
ft_skill_of(d) == Trunc(ft_pct_of(d) * 120, 100)

\* Line 233: scoring_factor = min(2.0, ppg / 15.0), as a numerator over 150
scoring_factor_of(d) == Min(300, ppg_of(d))

\* Lines 234-235
close_range_of(d) ==
    Min(100, Max(40, Trunc(shooting_base_of(d) * 12 * scoring_factor_of(d), 1500)))
mid_range_of(d) ==
    Min(100, Max(40, Trunc(shooting_base_of(d) * scoring_factor_of(d), 150)))

\* Lines 243-250
passing_skill_of(d, m) ==
    LET base_passing == Trunc(apg_of(d) * m.passing_multiplier, 10)
    IN  Min(100, Max(m.min_passing, base_passing))
speed_of(d, m) ==
    Min(100, Max(m.min_speed, m.base_speed + Trunc((apg_of(d) + spg_of(d)) * 3, 10)))
\* A faulty variant: the speed factor 3 used for dribbling
dribbling_of_mut(d, m) ==
    Min(100, Max(m.min_dribbling, m.base_dribbling + Trunc(apg_of(d) * 3, 10)))
dribbling_of(d, m) ==
    Min(100, Max(m.min_dribbling, m.base_dribbling + Trunc(apg_of(d) * 4, 10)))

\* Lines 253-259
steal_skill_of(d) == Min(100, Max(30, Trunc(spg_of(d) * 50, 10)))
block_skill_of(d) == Min(100, Max(20, Trunc(bpg_of(d) * 60, 10)))
rebound_skill_of(d, m) ==
    Min(100, Max(30, Trunc(rpg_of(d) * m.rebound_multiplier, 10)))
\* A faulty variant: the base 50 left out
defense_skill_of_mut(d) ==
    Min(100, Max(40, Trunc((spg_of(d) + bpg_of(d)) * 15, 10)))
defense_skill_of(d) ==
    Min(100, Max(40, 50 + Trunc((spg_of(d) + bpg_of(d)) * 15, 10)))
stamina_of(d) == Min(100, Max(50, Trunc(mpg_of(d) * 25, 100)))

\* Lines 262-266
layup_skill_of(d, m) ==
    Min(100, Max(m.layup_base, m.layup_base + Trunc(scoring_factor_of(d) * 20, 150)))
dunk_skill_of(d, m) ==
    Min(100, Max(m.dunk_base, m.dunk_base + Trunc(scoring_factor_of(d) * 15, 150)))

convert_stats_to_simulation_attributes(st, p) ==
    IF NoStats(st)
    THEN _get_position_defaults(p)
    ELSE LET d == st.val
             position_mods == _get_position_modifiers(p)
         IN  [shooting |-> [close |-> close_range_of(d),
                            mid   |-> mid_range_of(d),
                            long  |-> three_point_skill_of(d),
                            ft    |-> ft_skill_of(d)],
              driving  |-> [layups  |-> layup_skill_of(d, position_mods),
                            dunking |-> dunk_skill_of(d, position_mods)],
              skills   |-> [speed     |-> speed_of(d, position_mods),
                            dribbling |-> dribbling_of(d, position_mods),
                            passing   |-> passing_skill_of(d, position_mods),
                            stamina   |-> stamina_of(d)],
              defense  |-> [rebounding |-> rebound_skill_of(d, position_mods),
                            defense    |-> defense_skill_of(d),
                            blocking   |-> block_skill_of(d),
                            stealing   |-> steal_skill_of(d)]]

----------------------------------------------------------------------------
(* Players and teams (the player and team modules) *)

\* player.POSITIONS: the label of each slot
POSITIONS == [p \in Slots |->
                CASE p = 1 -> PG [] p = 2 -> SG [] p = 3 -> SF
                  [] p = 4 -> PF [] p = 5 -> C_]

\* A faulty variant: blockChance weighs defense like blocking
Player_mut(name, pos, a) ==
    [name |-> name, position |-> pos, position_string |-> POSITIONS[pos],
     shooting |-> a.shooting, driving |-> a.driving,
     skills |-> a.skills, defense |-> a.defense,
     complete_pass |-> a.skills.passing,
     protect_drive |-> 60 * a.skills.dribbling + 40 * a.skills.speed,
     steal_drive   |-> 40 * a.defense.defense + 30 * a.skills.speed
                         + 30 * a.defense.stealing,
     steal_pass    |-> 25 * a.defense.defense + 35 * a.skills.speed
                         + 40 * a.defense.stealing,
     block_chance  |-> 80 * a.defense.blocking + 80 * a.defense.defense]

\* player.Player(name, position), with the attributes create_nba_player
\* assigns afterwards.  Derived probabilities are kept as numerators:
\* complete_pass over 100, protect_drive, steal_drive and steal_pass over
\* 10000, block_chance over 75000.
Player(name, pos, a) ==
    [name |-> name, position |-> pos, position_string |-> POSITIONS[pos],
     shooting |-> a.shooting, driving |-> a.driving,
     skills |-> a.skills, defense |-> a.defense,
     complete_pass |-> a.skills.passing,
     protect_drive |-> 60 * a.skills.dribbling + 40 * a.skills.speed,
     steal_drive   |-> 40 * a.defense.defense + 30 * a.skills.speed
                         + 30 * a.defense.stealing,
     steal_pass    |-> 25 * a.defense.defense + 35 * a.skills.speed
                         + 40 * a.defense.stealing,
     block_chance  |-> 80 * a.defense.blocking + 40 * a.defense.defense]

\* team.Team(name, players)
Team(name, ps) == [name |-> name, players |-> ps]

----------------------------------------------------------------------------
(* Roster balancer *)

Abs(x) == IF x < 0 THEN -x ELSE x

Front(s) == SubSeq(s, 1, Len(s) - 1)

\* A faulty variant: the element behind the inserted one is lost
InsertStable_mut(s, x) ==
    LET k == Cardinality({j \in 1..Len(s) : s[j].position <= x.position})
    IN  SubSeq(s, 1, k) \o <<x>> \o SubSeq(s, k + 2, Len(s))

\* x placed behind every element whose position is not greater: one step
\* of a stable sort
InsertStable(s, x) ==
    LET k == Cardinality({j \in 1..Len(s) : s[j].position <= x.position})
    IN  SubSeq(s, 1, k) \o <<x>> \o SubSeq(s, k + 1, Len(s))

\* A faulty variant: the list is left in the order it came in
SortByPosition_mut(ps) == ps

\* players.sort(key=lambda x: x.position): stable, ascending
RECURSIVE SortByPosition(_)
SortByPosition(ps) ==
    IF ps = <<>> THEN <<>>
    ELSE InsertStable(SortByPosition(Front(ps)), ps[Len(ps)])

\* A faulty variant: the first player of the list is not counted
CountPositions_mut(ps) ==
    [p \in Slots |-> Cardinality({j \in 2..Len(ps) : ps[j].position = p})]

\* Lines 457-459
CountPositions(ps) ==
    [p \in Slots |-> Cardinality({j \in 1..Len(ps) : ps[j].position = p})]

\* A faulty variant: the last player at the least distance wins
BestCandidate_mut(ps, pos) ==
    CHOOSE j \in 1..Len(ps) :
        /\ \A h \in 1..Len(ps) :
               Abs(ps[j].position - pos) <= Abs(ps[h].position - pos)
        /\ \A h \in (j + 1)..Len(ps) :
               Abs(ps[h].position - pos) > Abs(ps[j].position - pos)

\* Lines 469-476: the first player at the least distance from pos
BestCandidate(ps, pos) ==
    CHOOSE j \in 1..Len(ps) :
        /\ \A h \in 1..Len(ps) :
               Abs(ps[j].position - pos) <= Abs(ps[h].position - pos)
        /\ \A h \in 1..(j - 1) :
               Abs(ps[h].position - pos) > Abs(ps[j].position - pos)

\* A faulty variant: the label is left as it was
Reassign_mut(p, pos) == [p EXCEPT !.position = pos]

\* Lines 480-481
Reassign(p, pos) ==
    [p EXCEPT !.position = pos, !.position_string = POSITIONS[pos]]

\* A faulty variant: a player converted earlier in the call is not a
\* candidate again
RECURSIVE BalanceLoop_fresh(_, _, _, _)
BalanceLoop_fresh(ps, position_counts, converted, pos) ==
    LET taken == { converted[c][2] : c \in 1..Len(converted) }
        fresh == { j \in 1..Len(ps) : ps[j].name \notin taken }
    IN  IF pos > 5
        THEN [players |-> ps, converted |-> converted]
        ELSE IF position_counts[pos] = 0 /\ fresh # {}
             THEN LET b == CHOOSE j \in fresh :
                             /\ \A h \in fresh :
                                    Abs(ps[j].position - pos)
                                        <= Abs(ps[h].position - pos)
                             /\ \A h \in fresh :
                                    h < j => Abs(ps[h].position - pos)
                                                > Abs(ps[j].position - pos)
                  IN  BalanceLoop_fresh(
                        [ps EXCEPT ![b] = Reassign(ps[b], pos)],
                        [position_counts EXCEPT ![pos] = @ + 1],
                        Append(converted, <<pos, ps[b].name>>),
                        pos + 1)
             ELSE BalanceLoop_fresh(ps, position_counts, converted, pos + 1)

\* A faulty variant: the tally of the slot a player leaves is lowered
RECURSIVE BalanceLoop_recount(_, _, _, _)
BalanceLoop_recount(ps, position_counts, converted, pos) ==
    IF pos > 5
    THEN [players |-> ps, converted |-> converted]
    ELSE IF position_counts[pos] = 0 /\ Len(ps) > 0
         THEN LET b == BestCandidate(ps, pos)
              IN  BalanceLoop_recount(
                    [ps EXCEPT ![b] = Reassign(ps[b], pos)],
                    [position_counts EXCEPT ![pos] = @ + 1,
                                            ![ps[b].position] = @ - 1],
                    Append(converted, <<pos, ps[b].name>>),
                    pos + 1)
         ELSE BalanceLoop_recount(ps, position_counts, converted, pos + 1)

\* A faulty variant: the loop ends before the last slot
RECURSIVE BalanceLoop_short(_, _, _, _)
BalanceLoop_short(ps, position_counts, converted, pos) ==
    IF pos > 4
    THEN [players |-> ps, converted |-> converted]
    ELSE IF position_counts[pos] = 0 /\ Len(ps) > 0
         THEN LET b == BestCandidate(ps, pos)
              IN  BalanceLoop_short(
                    [ps EXCEPT ![b] = Reassign(ps[b], pos)],
                    [position_counts EXCEPT ![pos] = @ + 1],
                    Append(converted, <<pos, ps[b].name>>),
                    pos + 1)
         ELSE BalanceLoop_short(ps, position_counts, converted, pos + 1)

\* Lines 464-483: the loop from slot pos on.  converted is the list of
\* conversions made, as <<slot, player name>>.
RECURSIVE BalanceLoop(_, _, _, _)
BalanceLoop(ps, position_counts, converted, pos) ==
    IF pos > 5
    THEN [players |-> ps, converted |-> converted]
    ELSE IF position_counts[pos] = 0 /\ Len(ps) > 0
         THEN LET b == BestCandidate(ps, pos)
              IN  BalanceLoop(
                    [ps EXCEPT ![b] = Reassign(ps[b], pos)],
                    [position_counts EXCEPT ![pos] = @ + 1],
                    Append(converted, <<pos, ps[b].name>>),
                    pos + 1)
         ELSE BalanceLoop(ps, position_counts, converted, pos + 1)

_balance_roster(ps) ==
    LET sorted == SortByPosition(ps)
    IN  BalanceLoop(sorted, CountPositions(sorted), <<>>, 1)

----------------------------------------------------------------------------
(* Inputs of the pure functions *)

\* Labels given to convert_position_to_number: every key of the table,
\* every "A-B" of two short codes, and labels outside the table.
ShortCodes == {PG, SG, SF, PF, C_, G_, F_}
Hyphenated == {a \o <<"-">> \o b : a \in ShortCodes, b \in ShortCodes}
OtherLabels == {<<"X", "X">>, <<"p", "g">>, <<>>, <<"-">>,
                <<"P", "G", "-">>, <<"-", "P", "G">>,
                <<"P", "G", "-", "S", "G", "-", "S", "F">>}
Labels == DOMAIN position_mapping \cup Hyphenated \cup OtherLabels

\* The stats record of the worked scenario: 30 ppg, 10 apg, 5 rpg, 2 spg,
\* 1 bpg, 36 mpg, .55 / .40 / .85 shooting.
Scenario ==
    [points_per_game |-> 300, assists_per_game |-> 100,
     rebounds_per_game |-> 50, steals_per_game |-> 20,
     blocks_per_game |-> 10, minutes_per_game |-> 360,
     fg_percentage |-> 55, fg3_percentage |-> 40, ft_percentage |-> 85]

\* Other values each field takes: below, at, inside and above its range
AltVals ==
    [points_per_game   |-> <<-10, 0, 75, 150, 10000>>,
     assists_per_game  |-> <<-5, 0, 20, 40, 55>>,
     rebounds_per_game |-> <<-20, 0, 25, 80, 125>>,
     steals_per_game   |-> <<-1, 0, 5, 10, 30>>,
     blocks_per_game   |-> <<-5, 0, 5, 20, 30>>,
     minutes_per_game  |-> <<0, 50, 100, 250, 480>>,
     fg_percentage     |-> <<0, 30, 45, 70, 100>>,
     fg3_percentage    |-> <<0, 20, 35, 50, 100>>,
     ft_percentage     |-> <<0, 50, 75, 95, 100>>]
AltIdx == DOMAIN AltVals.points_per_game

\* How many fields of a record differ from the scenario (changed or missing)
MaxVaried == 2

\* The scenario with the fields of D changed: those of M removed, the
\* others set to the alternative chosen by v
Varied(D, M, v) ==
    [k \in StatKeys \ M |-> IF k \in D THEN AltVals[k][v[k]] ELSE Scenario[k]]

StatsDicts ==
    UNION { UNION { { Varied(D, M, v) : v \in [D \ M -> AltIdx] }
                    : M \in SUBSET D }
            : D \in { D \in SUBSET StatKeys : Cardinality(D) <= MaxVaried } }

StatsInputs == {None, Some(EmptyDict)} \cup { Some(d) : d \in StatsDicts }

\* Rosters given to _balance_roster: every list of at most MaxUnsorted
\* players, and every list of at most MaxPlayers players in ascending
\* position; player j is named j and carries its slot's default profile.
MaxPlayers == 12
MaxUnsorted == 4

RECURSIVE NonDecreasing(_, _)
NonDecreasing(n, lo) ==
    IF n = 0 THEN {<<>>}
    ELSE UNION { { <<p>> \o t : t \in NonDecreasing(n - 1, p) } : p \in lo..5 }

Reverse(q) == [j \in 1..Len(q) |-> q[Len(q) + 1 - j]]

\* every sorted list up to MaxPlayers, each of them backwards, and every
\* list up to MaxUnsorted
PositionLists ==
    UNION { NonDecreasing(n, 1) : n \in 0..MaxPlayers }
    \cup UNION { { Reverse(q) : q \in NonDecreasing(n, 1) } : n \in 0..MaxPlayers }
    \cup UNION { [1..n -> Slots] : n \in 0..MaxUnsorted }

RosterOf(ql) == [j \in 1..Len(ql) |-> Player(j, ql[j], defaults[ql[j]])]

BalancerInputs == { RosterOf(ql) : ql \in PositionLists }

----------------------------------------------------------------------------
(* The statistics provider, as the assembler sees it *)

Season == "2024-25"

\* f"{id}_{season}"
CacheKey(id) == <<id, Season>>

TeamIds == {1, 2}

\* Team 1 lists between MinListing and MaxListing entries (or none) with
\* mixed labels; team 2 lists Team2Len forwards.
MinListing == 7
MaxListing == 13
Team2Len == 10

Team1Labels == <<G_, F_C, C_, PG, G_F, F_, C_F, PF>>

LabelOf(tid, k) ==
    IF tid = 1 THEN Team1Labels[((k - 1) % Len(Team1Labels)) + 1] ELSE F_

Listing(tid, n) ==
    [k \in 1..n |-> [id |-> 100 * tid + k, name |-> 100 * tid + k,
                     position |-> LabelOf(tid, k)]]

\* the lengths a listing may have: for team 1 none, those around the
\* least roster and those around the cap; for team 2 one length
ListingLens(tid) ==
    IF tid = 1
    THEN {0} \cup (MinListing..(MinListing + 2)) \cup ((MaxListing - 1)..MaxListing)
    ELSE {Team2Len}

\* a second stats record, of a player off the bench
Bench ==
    [points_per_game |-> 75, assists_per_game |-> 20,
     rebounds_per_game |-> 25, steals_per_game |-> 5,
     blocks_per_game |-> 5, minutes_per_game |-> 250,
     fg_percentage |-> 45, fg3_percentage |-> 35, ft_percentage |-> 75]

\* the stats the provider holds for a player: every fifth player has an
\* empty season table (lines 138-140), the others one of the two records
StatsOf(pid) ==
    IF pid % 5 = 0 THEN None
    ELSE IF pid % 2 = 1 THEN Some(Scenario) ELSE Some(Bench)

\* how many roster entries may go wrong in one run: a stats fetch that
\* raises, a construction that raises, or both
MaxFailures == 1

----------------------------------------------------------------------------
(* Pieces of create_nba_player and create_nba_team *)

\* A faulty variant: an entry without stats is given up
create_nba_player_mut(player_data, st, ctor_ok) ==
    IF ctor_ok /\ st.some
    THEN LET pos == convert_position_to_number(player_data.position)
         IN  Some(Player(player_data.name, pos,
                         convert_stats_to_simulation_attributes(st, pos)))
    ELSE None

\* Lines 373-406, given the stats get_player_season_stats returned and
\* whether the construction goes through; None is the except branch
create_nba_player(player_data, st, ctor_ok) ==
    IF ctor_ok
    THEN LET pos == convert_position_to_number(player_data.position)
             attrs == convert_stats_to_simulation_attributes(st, pos)
         IN  Some(Player(player_data.name, pos, attrs))
    ELSE None

\* A faulty variant: the test of the module flag is missing
NBADataManager_init_mut(available) == "NBADataManager"

\* Lines 31-39: the constructor raises when the provider package could
\* not be imported
NBADataManager_init(available) ==
    IF ~available THEN "ImportError" ELSE "NBADataManager"

\* A faulty variant: the entries gathered before the error are returned
get_team_roster_mut(raised, listing) == listing

\* Lines 92-117 for a key the cache does not hold: the listing the
\* provider answers with, or the empty list of the except branch
get_team_roster(raised, listing) == IF raised THEN <<>> ELSE listing

\* A faulty variant: the answer is not kept
CachePut_mut(cache, cache_key, value) == cache

\* Lines 111 and 172: an answer enters the cache under its key
CachePut(cache, cache_key, value) == (cache_key :> value) @@ cache

\* A faulty variant: a failed construction ends the loop
NextEntry_mut(idx, nba_player, roster) ==
    IF nba_player.some THEN idx + 1 ELSE Len(roster) + 1

\* Line 423: the loop goes on to the next entry, whatever
\* create_nba_player returned
NextEntry(idx, nba_player, roster) == idx + 1

\* A faulty variant: the two results are returned as they are
ReturnedPair_mut(t1, t2) == <<t1, t2>>

\* Lines 503-510: both teams, or no team at all
ReturnedPair(t1, t2) ==
    IF t1.some /\ t2.some THEN <<t1, t2>> ELSE <<None, None>>

\* A faulty variant: the limit off by one
RosterFull_mut(ps) == Len(ps) >= 13

\* Line 424
RosterFull(ps) == Len(ps) >= 12

\* A faulty variant: the minimum off by one
InsufficientRoster_mut(ps) == Len(ps) < 7

\* Line 436
InsufficientRoster(ps) == Len(ps) < 8

----------------------------------------------------------------------------
(* Idle values of each group of variables *)

IdlePos == position_str = <<>> /\ result = 0
IdleConv == stats = None /\ position = 3 /\ attributes = None
IdleBal == players = <<>> /\ balanced = None /\ rebalanced = None
IdlePlr == entry = <<>> /\ entry_stats = None /\ made = None
IdleAsm ==
    /\ NBA_API_AVAILABLE = TRUE /\ team1_id = 1 /\ team2_id = 2
    /\ pc = "returned" /\ call = 0 /\ manager = "none"
    /\ roster_cache = EmptyDict /\ player_cache = EmptyDict
    /\ roster_data = <<>> /\ i = 0 /\ players_created = <<>>
    /\ team1 = None /\ team2 = None /\ returned = <<>>
    /\ requests = <<>> /\ failures = 0
    /\ fetch_errors = {} /\ skipped = {} /\ handed = None

----------------------------------------------------------------------------
(* Specification of the position mapper *)

InitPos ==
    /\ position_str \in Labels
    /\ result = 0
    /\ IdleConv /\ IdleBal /\ IdlePlr /\ IdleAsm

MapPosition ==
    /\ result = 0
    /\ result' = convert_position_to_number(position_str)
    /\ UNCHANGED <<position_str, convVars, balVars, plrVars, asmVars>>

NextPos == MapPosition

SpecPos == InitPos /\ [][NextPos]_vars

(* Specification of the attribute converter *)

InitConv ==
    /\ stats \in StatsInputs
    /\ position \in Slots
    /\ attributes = None
    /\ IdlePos /\ IdleBal /\ IdlePlr /\ IdleAsm

Convert ==
    /\ ~attributes.some
    /\ attributes' = Some(convert_stats_to_simulation_attributes(stats, position))
    /\ UNCHANGED <<stats, position, posVars, balVars, plrVars, asmVars>>

NextConv == Convert

SpecConv == InitConv /\ [][NextConv]_vars

(* Specification of the roster balancer *)

InitBal ==
    /\ players \in BalancerInputs
    /\ balanced = None /\ rebalanced = None
    /\ IdlePos /\ IdleConv /\ IdlePlr /\ IdleAsm

Balance ==
    /\ ~balanced.some
    /\ balanced' = Some(_balance_roster(players))
    /\ UNCHANGED <<players, rebalanced, posVars, convVars, plrVars, asmVars>>

\* _balance_roster called on the list it returned
BalanceAgain ==
    /\ balanced.some /\ ~rebalanced.some
    /\ rebalanced' = Some(_balance_roster(balanced.val.players))
    /\ UNCHANGED <<players, balanced, posVars, convVars, plrVars, asmVars>>

NextBal == Balance \/ BalanceAgain

SpecBal == InitBal /\ [][NextBal]_vars

----------------------------------------------------------------------------
(* Specification of create_nba_player *)

\* one label for each slot
EntryLabels == {PG, SG, SF, PF, C_}

InitPlr ==
    /\ entry \in { [id |-> 1, name |-> 1, position |-> l] : l \in EntryLabels }
    /\ entry_stats \in StatsInputs
    /\ made = None
    /\ IdlePos /\ IdleConv /\ IdleBal /\ IdleAsm

\* Lines 371-406, from the stats get_player_season_stats returned
CreatePlayer ==
    /\ ~made.some
    /\ \E ctor_ok \in BOOLEAN :
          made' = Some(create_nba_player(entry, entry_stats, ctor_ok))
    /\ UNCHANGED <<entry, entry_stats, posVars, convVars, balVars, asmVars>>

NextPlr == CreatePlayer

SpecPlr == InitPlr /\ [][NextPlr]_vars

----------------------------------------------------------------------------
(* Specification of the team assembler: one run of create_nba_teams *)

Init ==
    /\ NBA_API_AVAILABLE \in BOOLEAN
    /\ team1_id \in TeamIds /\ team2_id \in TeamIds
    /\ pc = "start" /\ call = 0 /\ manager = "none"
    /\ roster_cache = EmptyDict /\ player_cache = EmptyDict
    /\ roster_data = <<>> /\ i = 0 /\ players_created = <<>>
    /\ team1 = None /\ team2 = None /\ returned = <<>>
    /\ requests = <<>> /\ failures = 0
    /\ fetch_errors = {} /\ skipped = {} /\ handed = None
    /\ IdlePos /\ IdleConv /\ IdleBal /\ IdlePlr

\* Lines 491-493: without the provider package nothing is attempted
Unavailable ==
    /\ pc = "start" /\ ~NBA_API_AVAILABLE
    /\ returned' = <<None, None>>
    /\ pc' = "returned"
    /\ UNCHANGED <<NBA_API_AVAILABLE, manager, team1_id, team2_id, call,
                   roster_cache, player_cache, roster_data, i,
                   players_created, team1, team2, requests, failures,
                   fetch_errors, skipped, handed>>
    /\ UNCHANGED <<posVars, convVars, balVars, plrVars>>

\* the team whose assembly is running or has just ended
CurrentTeamId == IF call = 1 THEN team1_id ELSE team2_id

\* Lines 500-501 calling lines 408-420: create_nba_team up to the loop,
\* with get_team_roster (lines 85-117).  The provider either raises or
\* answers with a listing.
CreateTeam ==
    /\ \/ pc = "start" /\ NBA_API_AVAILABLE
       \/ pc = "done" /\ call = 1
    /\ LET tid == IF call = 0 THEN team1_id ELSE team2_id
           cache_key == CacheKey(tid)
           cached == cache_key \in DOMAIN roster_cache
       IN  \E raised \in BOOLEAN, n \in ListingLens(tid) :
             LET roster == IF cached THEN roster_cache[cache_key]
                           ELSE get_team_roster(raised, Listing(tid, n))
             IN  /\ cached => (~raised /\ n = Len(roster_cache[cache_key]))
                 /\ raised => \A m \in ListingLens(tid) : n <= m
                 /\ roster_cache' =
                      IF cached \/ raised THEN roster_cache
                      ELSE CachePut(roster_cache, cache_key, roster)
                 /\ requests' =
                      IF cached THEN requests
                      ELSE Append(requests,
                                  [kind |-> "roster", id |-> tid,
                                   call |-> call + 1, stored |-> ~raised])
                 /\ roster_data' = roster
                 /\ pc' = IF roster = <<>> THEN "done" ELSE "loop"
                 /\ IF roster = <<>> /\ call = 0
                    THEN team1' = None /\ team2' = team2
                    ELSE IF roster = <<>>
                    THEN team2' = None /\ team1' = team1
                    ELSE UNCHANGED <<team1, team2>>
    /\ manager' = IF call = 0 THEN NBADataManager_init(NBA_API_AVAILABLE)
                  ELSE manager
    /\ call' = call + 1
    /\ i' = 1
    /\ players_created' = <<>>
    /\ fetch_errors' = {} /\ skipped' = {} /\ handed' = None
    /\ UNCHANGED <<NBA_API_AVAILABLE, team1_id, team2_id, player_cache,
                   returned, failures>>
    /\ UNCHANGED <<posVars, convVars, balVars, plrVars>>

\* Lines 423-434 calling lines 371-406: one iteration of the loop, with
\* create_nba_player and get_player_season_stats (lines 119-177).  The
\* provider answers with what it holds for the player or raises; the
\* construction of the player may raise.
ProcessEntry ==
    /\ pc = "loop" /\ i <= Len(roster_data) /\ ~RosterFull(players_created)
    /\ LET player_data == roster_data[i]
           cache_key == CacheKey(player_data.id)
           cached == cache_key \in DOMAIN player_cache
       IN  \E raised \in BOOLEAN, ctor_ok \in BOOLEAN :
             LET st == IF cached THEN Some(player_cache[cache_key])
                       ELSE IF raised THEN None
                       ELSE StatsOf(player_data.id)
                 nba_player == create_nba_player(player_data, st, ctor_ok)
                 wrong == raised \/ ~ctor_ok
             IN  /\ cached => ~raised
                 /\ wrong => failures < MaxFailures
                 /\ player_cache' =
                      IF ~cached /\ st.some
                      THEN CachePut(player_cache, cache_key, st.val)
                      ELSE player_cache
                 /\ requests' =
                      IF cached THEN requests
                      ELSE Append(requests,
                                  [kind |-> "stats", id |-> player_data.id,
                                   call |-> call, stored |-> st.some])
                 /\ failures' = IF wrong THEN failures + 1 ELSE failures
                 /\ fetch_errors' = IF raised
                                    THEN fetch_errors \cup {player_data.id}
                                    ELSE fetch_errors
                 /\ skipped' = IF ctor_ok THEN skipped
                               ELSE skipped \cup {player_data.id}
                 /\ players_created' =
                      IF nba_player.some
                      THEN Append(players_created, nba_player.val)
                      ELSE players_created
                 /\ i' = NextEntry(i, nba_player, roster_data)
    /\ UNCHANGED <<NBA_API_AVAILABLE, manager, team1_id, team2_id, pc, call,
                   roster_cache, roster_data, team1, team2, returned, handed>>
    /\ UNCHANGED <<posVars, convVars, balVars, plrVars>>

\* Lines 423-425 and 436-447: the loop ends, the roster is judged,
\* balanced and made a team
Finish ==
    /\ pc = "loop"
    /\ i > Len(roster_data) \/ RosterFull(players_created)
    /\ LET enough == ~InsufficientRoster(players_created)
           b == _balance_roster(players_created)
           nba_team == IF enough
                       THEN Some(Team(CurrentTeamId, b.players))
                       ELSE None
       IN  /\ handed' = IF enough THEN Some(players_created) ELSE None
           /\ players_created' = IF enough THEN b.players ELSE players_created
           /\ IF call = 1
              THEN team1' = nba_team /\ team2' = team2
              ELSE team2' = nba_team /\ team1' = team1
    /\ pc' = "done"
    /\ UNCHANGED <<NBA_API_AVAILABLE, manager, team1_id, team2_id, call,
                   roster_cache, player_cache, roster_data, i, returned,
                   requests, failures, fetch_errors, skipped>>
    /\ UNCHANGED <<posVars, convVars, balVars, plrVars>>

\* Lines 503-510
Return ==
    /\ pc = "done" /\ call = 2
    /\ returned' = ReturnedPair(team1, team2)
    /\ pc' = "returned"
    /\ UNCHANGED <<NBA_API_AVAILABLE, manager, team1_id, team2_id, call,
                   roster_cache, player_cache, roster_data, i,
                   players_created, team1, team2, requests, failures,
                   fetch_errors, skipped, handed>>
    /\ UNCHANGED <<posVars, convVars, balVars, plrVars>>

\* Lines 31-39: a caller that has no manager constructs an
\* NBADataManager itself, before a run of create_nba_teams or after one
\* that made none
Construct ==
    /\ pc \in {"start", "returned"} /\ manager = "none"
    /\ manager' = NBADataManager_init(NBA_API_AVAILABLE)
    /\ pc' = "constructed"
    /\ UNCHANGED <<NBA_API_AVAILABLE, team1_id, team2_id, call,
                   roster_cache, player_cache, roster_data, i,
                   players_created, team1, team2, returned, requests,
                   failures, fetch_errors, skipped, handed>>
    /\ UNCHANGED <<posVars, convVars, balVars, plrVars>>

Next ==
    Unavailable \/ CreateTeam \/ ProcessEntry \/ Finish \/ Return \/ Construct

Spec == Init /\ [][Next]_vars

----------------------------------------------------------------------------
(* Properties of the position mapper *)

\* C3: for every label of the mapping table, hyphenated codes included,
\* convert_position_to_number returns the slot the table gives that label.
C3_TableLabelGetsTableSlot ==
    (result # 0 /\ position_str \in DOMAIN position_mapping)
        => result = position_mapping[position_str]

(* Properties of the attribute converter *)

AttrGroups == {"shooting", "driving", "skills", "defense"}

\* the 14 sub-attribute values of a profile
AttrValues(a) == UNION { { a[g][k] : k \in DOMAIN a[g] } : g \in AttrGroups }

\* C2: every sub-attribute returned by
\* convert_stats_to_simulation_attributes is an integer in 0..100.
C2_EveryAttributeIn0to100 ==
    attributes.some => \A x \in AttrValues(attributes.val) : x \in 0..100

\* C6: with absent stats the returned profile is exactly the position
\* default profile of the given slot.
C6_AbsentStatsGiveDefaults ==
    (attributes.some /\ ~stats.some) => attributes.val = defaults[position]

C6_Witness ==
    /\ attributes.some /\ ~stats.some /\ position = 5
    /\ attributes.val.defense.blocking = 80

\* The formulas of section 4.2, on a complete record r of non-negative
\* counting stats and the modifier record m (same scaled units)
Clamp(x, lo, hi) ==
    LET lower == IF x < lo THEN lo ELSE x
    IN  IF lower > hi THEN hi ELSE lower
Floor(n, d) == n \div d

Formula42(r, m) ==
    LET fgPct  == Clamp(r.fg_percentage, 30, 70)
        fg3Pct == Clamp(r.fg3_percentage, 20, 50)
        ftPct  == Clamp(r.ft_percentage, 50, 95)
        mpg    == Clamp(r.minutes_per_game, 100, 400)
        ppg    == r.points_per_game
        apg    == r.assists_per_game
        rpg    == r.rebounds_per_game
        spg    == r.steals_per_game
        bpg    == r.blocks_per_game
        shootingBase == Floor(fgPct * 150, 100)
        \* scoringFactor = min(2.0, ppg/15), over 150
        scoringFactor == IF ppg > 300 THEN 300 ELSE ppg
    IN  [shooting |->
           [close |-> Clamp(Floor(shootingBase * 12 * scoringFactor, 1500), 40, 100),
            mid   |-> Clamp(Floor(shootingBase * scoringFactor, 150), 40, 100),
            long  |-> Floor(fg3Pct * 200, 100),
            ft    |-> Floor(ftPct * 120, 100)],
         driving |->
           [layups  |-> Clamp(m.layup_base + Floor(scoringFactor * 20, 150),
                              m.layup_base, 100),
            dunking |-> Clamp(m.dunk_base + Floor(scoringFactor * 15, 150),
                              m.dunk_base, 100)],
         skills |->
           [speed     |-> Clamp(m.base_speed + Floor((apg + spg) * 3, 10),
                                m.min_speed, 100),
            dribbling |-> Clamp(m.base_dribbling + Floor(apg * 4, 10),
                                m.min_dribbling, 100),
            passing   |-> Clamp(Floor(apg * m.passing_multiplier, 10),
                                m.min_passing, 100),
            stamina   |-> Clamp(Floor(mpg * 25, 100), 50, 100)],
         defense |->
           [rebounding |-> Clamp(Floor(rpg * m.rebound_multiplier, 10), 30, 100),
            defense    |-> Clamp(50 + Floor((spg + bpg) * 15, 10), 40, 100),
            blocking   |-> Clamp(Floor(bpg * 60, 10), 20, 100),
            stealing   |-> Clamp(Floor(spg * 50, 10), 30, 100)]]

CountingKeys == {"points_per_game", "assists_per_game", "rebounds_per_game",
                 "steals_per_game", "blocks_per_game"}

\* a present record with every field and no negative counting stat
CompleteStats(st) ==
    /\ st.some
    /\ DOMAIN st.val = StatKeys
    /\ \A k \in CountingKeys : st.val[k] >= 0

\* C7: for a present stats record and a slot 1..5 the returned profile
\* equals the section 4.2 formulas evaluated with that slot's modifiers.
C7_ConvertEqualsFormula ==
    (attributes.some /\ CompleteStats(stats))
        => attributes.val = Formula42(stats.val, modifiers[position])

\* a conversion in which no clamp of close, passing or dribbling is active
C7_Witness ==
    /\ attributes.some /\ CompleteStats(stats) /\ position = 4
    /\ attributes.val.shooting.close \in 41..99
    /\ attributes.val.skills.passing \in 41..99
    /\ attributes.val.skills.dribbling \in 36..99

IsScenarioAtPG == stats = Some(Scenario) /\ position = 1

\* C8 as stated: the scenario record at slot 1 yields passing 100, speed 100,
\* dribbling 100, stamina 100, stealing 100, blocking 60, rebounding 40
\* and defense 95.
C8_ScenarioSkillsAndDefense ==
    (attributes.some /\ IsScenarioAtPG)
        => /\ attributes.val.skills =
                [speed |-> 100, dribbling |-> 100, passing |-> 100, stamina |-> 100]
           /\ attributes.val.defense =
                [rebounding |-> 40, defense |-> 95, blocking |-> 60, stealing |-> 100]

\* C8 amended: as above, with stamina int(36 * 2.5) = 90.
C8_ScenarioStaminaIs90 ==
    (attributes.some /\ IsScenarioAtPG)
        => /\ attributes.val.skills =
                [speed |-> 100, dribbling |-> 100, passing |-> 100, stamina |-> 90]
           /\ attributes.val.defense =
                [rebounding |-> 40, defense |-> 95, blocking |-> 60, stealing |-> 100]

C8_Witness ==
    attributes.some /\ IsScenarioAtPG /\ attributes.val.defense.defense = 95

----------------------------------------------------------------------------
(* Properties of the roster balancer *)

\* the slots held by at least one player of a list
SlotsHeld(ps) == { ps[j].position : j \in 1..Len(ps) }

\* C1: for a roster of 8 to 12 players every slot 1..5 is held by at
\* least one player after _balance_roster.
C1_EverySlotHeldAfterBalance ==
    (balanced.some /\ Len(players) \in 8..12)
        => SlotsHeld(balanced.val.players) = Slots

(* Properties of the team assembler *)

\* the result of the create_nba_team call that has just ended
CurrentTeam == IF call = 1 THEN team1 ELSE team2

\* a create_nba_team call has just returned
CallDone == pc = "done"

\* the entries of the listing the loop has gone through
Processed == { roster_data[k].id : k \in 1..(i - 1) }

\* the entries a player was successfully created from
Created == Processed \ skipped

TeamNames(t) == { t.players[j].name : j \in 1..Len(t.players) }

\* C4: create_nba_team returns no Team exactly when fewer than 8 players
\* were created; with 7 created the balancer is not run, with 8 created
\* the Team holds those 8 players.
C4_FailureIffFewerThanEight ==
    CallDone =>
        /\ ~CurrentTeam.some <=> Cardinality(Created) < 8
        /\ Cardinality(Created) = 7 => (~CurrentTeam.some /\ ~handed.some)
        /\ Cardinality(Created) = 8 =>
              /\ CurrentTeam.some
              /\ Len(CurrentTeam.val.players) = 8
              /\ TeamNames(CurrentTeam.val) = Created

\* the first call built a team of exactly 8, the second failed with 7
\* created players, one entry having been skipped
C4_Witness ==
    /\ CallDone /\ call = 2
    /\ team1.some /\ Len(team1.val.players) = 8
    /\ Cardinality(Created) = 7 /\ skipped # {} /\ ~team2.some

\* C5: every Team returned by create_nba_team has between 8 and 12
\* players.
C5_TeamSizeBetween8And12 ==
    /\ team1.some => Len(team1.val.players) \in 8..12
    /\ team2.some => Len(team2.val.players) \in 8..12

\* a team cut at 12 players from a longer listing, an entry skipped
C5_Witness ==
    /\ CallDone /\ CurrentTeam.some
    /\ Len(CurrentTeam.val.players) = 12
    /\ Len(roster_data) > 12 /\ skipped # {}

\* C10 as stated: a team holds no player for an entry whose stats fetch
\* failed.
C10_FetchFailureSkipsEntry ==
    (CallDone /\ CurrentTeam.some)
        => TeamNames(CurrentTeam.val) \cap fetch_errors = {}

Profile(p) == [shooting |-> p.shooting, driving |-> p.driving,
               skills |-> p.skills, defense |-> p.defense]

\* C10 amended: a failed stats fetch neither aborts the assembly nor
\* skips the entry; unless its construction fails, the entry yields a
\* player carrying the default profile of the slot its label maps to, and
\* that player is in the team when one is returned.
C10_FetchFailureGivesDefaults ==
    pc \in {"loop", "done"} =>
        \A k \in 1..(i - 1) :
            (roster_data[k].id \in fetch_errors \ skipped) =>
                /\ \E j \in 1..Len(players_created) :
                      /\ players_created[j].name = roster_data[k].name
                      /\ Profile(players_created[j]) =
                           defaults[convert_position_to_number(roster_data[k].position)]
                /\ (CallDone /\ CurrentTeam.some) =>
                      roster_data[k].name \in TeamNames(CurrentTeam.val)

\* a returned team holding the player of a failed fetch and players of
\* later entries
C10_Witness ==
    /\ CallDone /\ CurrentTeam.some
    /\ \E n \in TeamNames(CurrentTeam.val) :
          /\ n \in fetch_errors
          /\ \E m \in TeamNames(CurrentTeam.val) : m > n

----------------------------------------------------------------------------
NamesOf(ps) == [j \in 1..Len(ps) |-> ps[j].name]

\* the names of the entries gone through so far whose construction did
\* not fail, in the order of the listing
SurvivingNames ==
    LET names == [k \in 1..(i - 1) |-> roster_data[k].name]
        Kept(n) == n \notin skipped
    IN  SelectSeq(names, Kept)

\* the provider requests of the current call of create_nba_team
StatsRequested ==
    { requests[r].id : r \in { q \in 1..Len(requests) :
                                 /\ requests[q].kind = "stats"
                                 /\ requests[q].call = call } }

\* C11: a failed construction skips its entry only: the loop goes on
\* with the later entries, and the list handed to the balancer holds
\* exactly the entries whose construction succeeded, in provider order.
C11_FailedEntrySkippedOthersKept ==
    /\ pc = "loop" => NamesOf(players_created) = SurvivingNames
    /\ handed.some => NamesOf(handed.val) = SurvivingNames
    /\ (CallDone /\ roster_data # <<>>) =>
          (i > Len(roster_data) \/ Len(SurvivingNames) >= 12)

\* a list handed to the balancer after an entry was skipped and a later
\* entry created
C11_Witness ==
    /\ handed.some
    /\ \E k \in 1..(i - 1), m \in 1..(i - 1) :
          /\ k < m
          /\ roster_data[k].id \in skipped
          /\ \E j \in 1..Len(handed.val) :
                handed.val[j].name = roster_data[m].name

\* C12: create_nba_team stops at 12 created players: the list before
\* balancing never exceeds 12, it ends with the entry of the 12th
\* success when entries are left over, and no stats are fetched and no
\* player is constructed for an entry after that one.
C12_StopsAtTwelfthSuccess ==
    pc \in {"loop", "done"} =>
        /\ Len(players_created) <= 12
        /\ \A k \in i..Len(roster_data) :
              /\ roster_data[k].id \notin StatsRequested
              /\ \A j \in 1..Len(players_created) :
                    players_created[j].name # roster_data[k].name
        /\ (handed.some /\ i <= Len(roster_data)) =>
              /\ Len(handed.val) = 12
              /\ handed.val[12].name = roster_data[i - 1].name

\* a list of 12 handed to the balancer with the last entry of the
\* listing left over, the stats fetch of an earlier entry having failed
C12_Witness ==
    /\ handed.some /\ Len(handed.val) = 12
    /\ i = Len(roster_data) /\ fetch_errors # {}

\* the roster fetch of the current call raised
RosterFetchFailed ==
    /\ \E r \in 1..Len(requests) :
          /\ requests[r].kind = "roster"
          /\ requests[r].call = call
          /\ ~requests[r].stored
\* the listing of the current call is the empty one
RosterListingEmpty ==
    /\ CacheKey(CurrentTeamId) \in DOMAIN roster_cache
    /\ roster_cache[CacheKey(CurrentTeamId)] = <<>>

\* C13: when the roster listing is empty or its fetch fails,
\* create_nba_team returns no Team, having fetched no player's stats,
\* constructed no player and not run the balancer.
C13_NoRosterNoWork ==
    (pc \in {"loop", "done"} /\ (RosterFetchFailed \/ RosterListingEmpty)) =>
        /\ CallDone /\ ~CurrentTeam.some
        /\ StatsRequested = {}
        /\ players_created = <<>> /\ i = 1
        /\ ~handed.some

\* the second call fails on a raising roster fetch after the first call
\* built a team from fetched stats
C13_Witness ==
    /\ CallDone /\ call = 2 /\ team1.some
    /\ RosterFetchFailed /\ ~team2.some
    /\ \E r \in 1..Len(requests) : requests[r].kind = "stats"

----------------------------------------------------------------------------
\* C14: _balance_roster returns the players it was given: as many as
\* before, none added, dropped or duplicated.
C14_SamePlayersAfterBalance ==
    balanced.some =>
        /\ Len(balanced.val.players) = Len(players)
        /\ \A n \in { players[j].name : j \in 1..Len(players) } :
              Cardinality({ j \in 1..Len(balanced.val.players) :
                              balanced.val.players[j].name = n }) = 1

\* an unsorted roster balanced with a conversion
C14_Witness ==
    /\ balanced.some /\ Len(players) >= 3
    /\ balanced.val.converted # <<>>
    /\ players # SortByPosition(players)

\* C15 as stated: a second call of _balance_roster on the result of the
\* first reassigns no player and leaves the number of players at each
\* slot as it was.
C15_SecondBalanceChangesNothing ==
    rebalanced.some =>
        /\ rebalanced.val.converted = <<>>
        /\ CountPositions(rebalanced.val.players)
             = CountPositions(balanced.val.players)

\* C18: _balance_roster changes nothing of a player but position and
\* label, and a reassigned player carries the label of its new slot.
C18_OnlyPositionAndLabelChange ==
    balanced.some =>
        \A j \in 1..Len(balanced.val.players) :
            LET q == balanced.val.players[j]
            IN  /\ \E h \in 1..Len(players) :
                      players[h] = [q EXCEPT
                                      !.position = players[h].position,
                                      !.position_string =
                                          players[h].position_string]
                /\ (\E c \in 1..Len(balanced.val.converted) :
                       balanced.val.converted[c][2] = q.name)
                     => q.position_string = POSITIONS[q.position]

\* a player moved to an empty slot, with its new label
C18_Witness ==
    /\ balanced.some
    /\ \E j \in 1..Len(balanced.val.players), h \in 1..Len(players) :
          /\ players[h].name = balanced.val.players[j].name
          /\ players[h].position # balanced.val.players[j].position
          /\ balanced.val.players[j].position_string
               # players[h].position_string

----------------------------------------------------------------------------
SameKey(a, b) ==
    requests[a].kind = requests[b].kind /\ requests[a].id = requests[b].id

CacheOf(kind) == IF kind = "roster" THEN roster_cache ELSE player_cache

\* C16 as stated: the provider is contacted at most once for a key.
C16_AtMostOneRequestPerKey ==
    \A a \in 1..Len(requests), b \in 1..Len(requests) :
        a < b => ~SameKey(a, b)

\* an answer that was stored is in the cache, and no request for its key
\* follows it
StoredAnswersAreFinal ==
    \A a \in 1..Len(requests) :
        requests[a].stored =>
            /\ CacheKey(requests[a].id) \in DOMAIN CacheOf(requests[a].kind)
            /\ \A b \in (a + 1)..Len(requests) : ~SameKey(a, b)

\* a step leaves every cached entry in place
CachedEntriesKept ==
    /\ \A k \in DOMAIN roster_cache :
          k \in DOMAIN roster_cache' /\ roster_cache'[k] = roster_cache[k]
    /\ \A k \in DOMAIN player_cache :
          k \in DOMAIN player_cache' /\ player_cache'[k] = player_cache[k]

\* C16 amended: once the provider has answered a lookup with data that
\* is cached, it is not contacted again for that key, every later lookup
\* of the key being served from the cache, and a cached entry is never
\* evicted or replaced; a lookup whose fetch raised or, for stats,
\* returned an empty season table caches nothing, and the next lookup of
\* that key contacts the provider again.
C16_OneStoredAnswerPerKey ==
    []StoredAnswersAreFinal /\ [][CachedEntriesKept]_vars

\* in the second call for the same team, one entry was served from the
\* cache and another, whose first fetch had stored nothing, was fetched
\* again
C16_Witness ==
    /\ call = 2 /\ team1_id = team2_id /\ pc = "loop"
    /\ \E k \in 1..(i - 1) :
          /\ roster_data[k].id \notin StatsRequested
          /\ CacheKey(roster_data[k].id) \in DOMAIN player_cache
    /\ \E a \in 1..Len(requests), b \in 1..Len(requests) :
          a < b /\ SameKey(a, b) /\ requests[a].kind = "stats"

----------------------------------------------------------------------------
\* C17: the five derived probabilities of a created player follow the
\* formulas from its profile (completePass = passing/100, protectDrive =
\* (0.60 dribbling + 0.40 speed)/100, stealDrive = (0.40 defense + 0.30
\* speed + 0.30 stealing)/100, stealPass = (0.25 defense + 0.35 speed +
\* 0.40 stealing)/100, blockChance = (0.80 blocking + 0.40 defense)/750);
\* the first four lie in [0, 1] and blockChance in [0, 0.16].  The
\* values are numerators over 100, 10000 and 75000.
C17_DerivedProbabilities ==
    (made.some /\ made.val.some) =>
        LET p == made.val.val
        IN  /\ p.complete_pass = p.skills.passing
            /\ p.protect_drive =
                  60 * p.skills.dribbling + 40 * p.skills.speed
            /\ p.steal_drive =
                  40 * p.defense.defense + 30 * p.skills.speed
                  + 30 * p.defense.stealing
            /\ p.steal_pass =
                  25 * p.defense.defense + 35 * p.skills.speed
                  + 40 * p.defense.stealing
            /\ p.block_chance =
                  80 * p.defense.blocking + 40 * p.defense.defense
            /\ p.complete_pass \in 0..100
            /\ p.protect_drive \in 0..10000
            /\ p.steal_drive \in 0..10000
            /\ p.steal_pass \in 0..10000
            /\ 100 * p.block_chance \in 0..(16 * 75000)

\* a player created from fetched stats whose blockChance is the largest
\* possible, 0.16
C17_Witness ==
    /\ made.some /\ made.val.some
    /\ entry_stats.some /\ DOMAIN entry_stats.val # {}
    /\ 100 * made.val.val.block_chance = 16 * 75000

----------------------------------------------------------------------------
\* the per-field defaults of C19, in tenths
CountingDefaults ==
    [points_per_game |-> 100, assists_per_game |-> 20,
     rebounds_per_game |-> 40, steals_per_game |-> 10,
     blocks_per_game |-> 5]

\* a record with a counting field missing or negative
Anomalous(d) ==
    \E k \in CountingKeys : k \notin DOMAIN d \/ d[k] < 0

\* the record with every missing counting field set to its default and
\* every negative counting stat set to 0
Lenient(d) ==
    [k \in DOMAIN d \cup CountingKeys |->
        IF k \notin CountingKeys THEN d[k]
        ELSE IF k \notin DOMAIN d THEN CountingDefaults[k]
        ELSE IF d[k] < 0 THEN 0 ELSE d[k]]

\* C19 as stated: every record with a missing or negative counting
\* field converts like the record with the defaults and zeros filled in.
C19_AnomaliesConvertLikeDefaults ==
    (attributes.some /\ stats.some /\ Anomalous(stats.val)) =>
        attributes.val =
            convert_stats_to_simulation_attributes(
                Some(Lenient(stats.val)), position)

\* C19 amended: a record holding at least one field converts, whatever
\* counting fields are missing or negative, like the record with each
\* missing counting field at its default (ppg=10, apg=2, rpg=4, spg=1,
\* bpg=0.5) and each negative counting stat at 0, and a profile is
\* returned; the record without any field is taken as absent stats and
\* gives the position defaults.
C19_NonEmptyAnomaliesConvertLikeDefaults ==
    (attributes.some /\ stats.some) =>
        /\ (Anomalous(stats.val) /\ DOMAIN stats.val # {}) =>
              attributes.val =
                  convert_stats_to_simulation_attributes(
                      Some(Lenient(stats.val)), position)
        /\ DOMAIN stats.val = {} => attributes.val = defaults[position]
        /\ DOMAIN attributes.val = {"shooting", "driving", "skills", "defense"}

\* a record with one counting field missing and another negative was
\* converted, and the result is not the default profile of the slot
C19_Witness ==
    /\ attributes.some /\ stats.some
    /\ \E k \in CountingKeys : k \notin DOMAIN stats.val
    /\ \E k \in CountingKeys \cap DOMAIN stats.val : stats.val[k] < 0
    /\ attributes.val # defaults[position]

----------------------------------------------------------------------------
\* C20: for a label with a separator only the segment before the first
\* separator is looked up: "PG-SG" gives the slot of "PG", 1, and any
\* "A-B" gives what "A" gives.
C20_OnlyFirstSegmentLookedUp ==
    result # 0 =>
        /\ \A k \in 1..Len(position_str) :
              LET A == SubSeq(position_str, 1, k - 1)
              IN  (position_str[k] = "-" /\ ~HasSep(A))
                      => result = convert_position_to_number(A)
        /\ position_str = PG \o <<"-">> \o SG => result = 1

\* "PG-SG" was mapped
C20_Witness ==
    /\ position_str = PG \o <<"-">> \o SG
    /\ result = convert_position_to_number(PG) /\ result = 1

----------------------------------------------------------------------------
\* the segment of a label in front of its first "-", the whole label
\* when it has none
LookupSegment(s) ==
    LET seps == { k \in 1..Len(s) : s[k] = "-" }
    IN  IF seps = {} THEN s
        ELSE SubSeq(s, 1, (CHOOSE k \in seps : \A h \in seps : k <= h) - 1)

\* C21: convert_position_to_number answers every label with a slot in
\* 1..5, and with slot 3 when the lookup segment of the label is not a
\* key of the case-sensitive table ("XX", "pg", the empty string).
C21_EveryLabelGetsASlot ==
    result # 0 =>
        /\ result \in 1..5
        /\ LookupSegment(position_str) \notin DOMAIN position_mapping
              => result = 3

\* "pg", which the table holds only in capitals, was mapped to slot 3
C21_Witness ==
    /\ position_str = <<"p", "g">>
    /\ result = 3

----------------------------------------------------------------------------
\* C22: without the provider package, create_nba_teams returns
\* (None, None) with no roster listing and no player stats requested and
\* no team assembled, and constructing an NBADataManager raises.
C22_UnavailableFailsFast ==
    ~NBA_API_AVAILABLE =>
        /\ requests = <<>> /\ call = 0
        /\ ~team1.some /\ ~team2.some
        /\ pc \in {"returned", "constructed"} => returned \in {<<>>, <<None, None>>}
        /\ pc = "returned" => returned = <<None, None>>
        /\ manager \in {"none", "ImportError"}
        /\ pc = "constructed" => manager = "ImportError"

\* create_nba_teams has returned (None, None) and a construction of the
\* manager has raised
C22_Witness ==
    /\ ~NBA_API_AVAILABLE
    /\ returned = <<None, None>>
    /\ pc = "constructed" /\ manager = "ImportError"

----------------------------------------------------------------------------
\* C30: create_nba_teams returns two teams or (None, None), never one
\* team alone; when the assembly of the first team fails, the second
\* team is assembled all the same (its roster looked up, and the stats of
\* its entries) before (None, None) is returned.
C30_BothTeamsOrNone ==
    returned # <<>> =>
        /\ returned[1].some <=> returned[2].some
        /\ returned[1].some => returned = <<team1, team2>>
        /\ NBA_API_AVAILABLE =>
              /\ call = 2
              /\ ~team1.some =>
                    /\ returned = <<None, None>>
                    /\ \/ CacheKey(team2_id) \in DOMAIN roster_cache
                       \/ \E r \in 1..Len(requests) :
                             /\ requests[r].kind = "roster"
                             /\ requests[r].id = team2_id
                             /\ requests[r].call = 2
                    /\ roster_data # <<>> =>
                          /\ i > 1
                          /\ \A k \in 1..(i - 1) :
                                \/ roster_data[k].id \in StatsRequested
                                \/ CacheKey(roster_data[k].id)
                                      \in DOMAIN player_cache

\* (None, None) was returned although the second team was assembled from
\* fetched stats after the first had failed
C30_Witness ==
    /\ returned = <<None, None>>
    /\ ~team1.some /\ team2.some
    /\ StatsRequested # {}

----------------------------------------------------------------------------
(* Further properties of the roster balancer *)

\* index and position, in the list passed in, of the player named n
EntryIdx(n) == CHOOSE j \in 1..Len(players) : players[j].name = n
EntryPos(n) == players[EntryIdx(n)].position

DoubleSteal ==
    \E c \in 1..(Len(balanced.val.converted) - 1) :
        /\ balanced.val.converted[c][2] = balanced.val.converted[c + 1][2]
        /\ balanced.val.converted[c][1] # balanced.val.converted[c + 1][1]
        /\ balanced.val.converted[c][1] \notin SlotsHeld(balanced.val.players)

EmptyOnEntry == Slots \ SlotsHeld(players)

\* C25 as stated: with exactly one slot empty on entry of a roster of 8
\* to 12 players, exactly one player is reassigned and every slot has a
\* player at return.
C25_OneEmptySlotIsFilled ==
    (/\ balanced.some
     /\ Len(players) \in 8..12
     /\ Cardinality(EmptyOnEntry) = 1)
        => /\ Len(balanced.val.converted) = 1
           /\ SlotsHeld(balanced.val.players) = Slots

\* the position the player named n holds before step c of the call: the
\* slot of its latest reassignment among the steps before c, or its
\* position on entry
RECURSIVE PosBefore(_, _)
PosBefore(n, c) ==
    IF c <= 1 THEN EntryPos(n)
    ELSE IF balanced.val.converted[c - 1][2] = n
         THEN balanced.val.converted[c - 1][1]
         ELSE PosBefore(n, c - 1)

\* place of the player named n in the returned list
PlaceOf(n) ==
    CHOOSE j \in 1..Len(balanced.val.players) :
        balanced.val.players[j].name = n

\* C26: the slots without a player on entry are treated in ascending
\* order, and the player reassigned to each is the first one in list
\* order among the players whose current position, as earlier steps of
\* the call left it, is at the least distance from the slot.
C26_FirstClosestIsReassigned ==
    (balanced.some /\ players # <<>>) =>
        LET conv == balanced.val.converted
            names == { players[j].name : j \in 1..Len(players) }
        IN  /\ { conv[c][1] : c \in 1..Len(conv) } = EmptyOnEntry
            /\ \A c \in 1..(Len(conv) - 1) : conv[c][1] < conv[c + 1][1]
            /\ \A c \in 1..Len(conv) : \A m \in names :
                  LET slot == conv[c][1]
                      n == conv[c][2]
                  IN  /\ Abs(PosBefore(n, c) - slot)
                            <= Abs(PosBefore(m, c) - slot)
                      /\ PlaceOf(m) < PlaceOf(n) =>
                            Abs(PosBefore(n, c) - slot)
                                < Abs(PosBefore(m, c) - slot)

\* a reassignment decided by list order: another player, later in the
\* list, was as close to the slot as the one taken
C26_Witness ==
    /\ balanced.some /\ Len(players) >= 8
    /\ \E c \in 1..Len(balanced.val.converted) :
          \E j \in 1..Len(players) :
              LET n == balanced.val.converted[c][2]
                  m == players[j].name
              IN  /\ m # n
                  /\ PlaceOf(n) < PlaceOf(m)
                  /\ Abs(PosBefore(n, c) - balanced.val.converted[c][1])
                       = Abs(PosBefore(m, c) - balanced.val.converted[c][1])
                  /\ PosBefore(n, c) # PosBefore(m, c)

\* C27: when every slot has a player on entry, _balance_roster reassigns
\* nobody: every player returns as it came, position and label included,
\* and the list is sorted by position with players of equal position in
\* the order they came in.
C27_FullRosterOnlySorted ==
    (balanced.some /\ SlotsHeld(players) = Slots) =>
        LET out == balanced.val.players
        IN  /\ balanced.val.converted = <<>>
            /\ Len(out) = Len(players)
            /\ \A j \in 1..Len(out) : out[j] = players[EntryIdx(out[j].name)]
            /\ \A j \in 1..Len(out), h \in 1..Len(out) :
                  j < h =>
                      /\ out[j].position <= out[h].position
                      /\ out[j].position = out[h].position
                            => EntryIdx(out[j].name) < EntryIdx(out[h].name)

\* a roster that came in backwards, with every slot held and two players
\* at one slot, was returned sorted
C27_Witness ==
    /\ balanced.some /\ SlotsHeld(players) = Slots
    /\ Len(players) >= 8
    /\ players[1].position = 5
    /\ players[1].position = players[2].position
    /\ balanced.val.players[1].position = 1

\* C28: on a non-empty roster one call makes as many reassignments as
\* slots were empty on entry; a player returns at its entry position or
\* at a slot that was empty on entry; a slot that had a player on entry
\* is never given to anyone, even when the call has emptied it.
C28_OnlyEntryEmptySlotsAreTargets ==
    (balanced.some /\ players # <<>>) =>
        /\ Len(balanced.val.converted) = Cardinality(EmptyOnEntry)
        /\ \A j \in 1..Len(balanced.val.players) :
              LET q == balanced.val.players[j]
              IN  q.position = EntryPos(q.name) \/ q.position \in EmptyOnEntry
        /\ \A c \in 1..Len(balanced.val.converted) :
              balanced.val.converted[c][1] \notin SlotsHeld(players)

\* a slot that had a player on entry was emptied by the call and is
\* empty at return
C28_Witness ==
    /\ balanced.some /\ Len(players) >= 8
    /\ balanced.val.converted # <<>>
    /\ SlotsHeld(players) \ SlotsHeld(balanced.val.players) # {}

\* C29: on a non-empty roster the highest slot that was empty on entry
\* has a player at return.
C29_HighestEmptySlotIsHeld ==
    (balanced.some /\ players # <<>> /\ EmptyOnEntry # {}) =>
        (CHOOSE p \in EmptyOnEntry : \A q \in EmptyOnEntry : q <= p)
            \in SlotsHeld(balanced.val.players)

\* two slots were empty on entry: the higher is held at return, the
\* lower is not
C29_Witness ==
    /\ balanced.some /\ Len(players) >= 8
    /\ \E p \in EmptyOnEntry, q \in EmptyOnEntry :
          /\ q < p
          /\ \A r \in EmptyOnEntry : r <= p
          /\ p \in SlotsHeld(balanced.val.players)
          /\ q \notin SlotsHeld(balanced.val.players)

====
